---- MODULE Spec2Model ----
(***************************************************************************)
(* The game-room state machine of the UMG multiplayer server               *)
(* (src/unnamed/part_000): the GAMES registry, the per-connection closure  *)
(* variable currentGameID, and the handlers createServer, joinServer,      *)
(* playerAction (processAction), chatMessage and disconnect; and the       *)
(* variant of src/server.js (games, playerToServer, hostID, isTurn), whose *)
(* definitions carry the prefix Sv where a name would be taken twice.      *)
(*                                                                         *)
(* A JavaScript object is modelled by its key order (a sequence) together  *)
(* with its key -> value mapping (a function): game.players is the pair    *)
(* playerIDs / players, state.territories is a sequence indexed by i for   *)
(* the key "T-i".  Cosmetic fields no handler reads back (serverName,      *)
(* hostName of the room, color, coords, diplomacy) are left out.           *)
(***************************************************************************)
EXTENDS Integers, Sequences, FiniteSets, TLC

VARIABLES
    GAMES,          \* the registry: room id -> room
    currentGameID,  \* per connection: the closure variable of its handlers
    conn,           \* per connection: "new", "open" or "closed"
    out,            \* what the last handler emitted, in order
    used,           \* how many state-changing events of each kind have run
    joined,         \* the registered rooms that a player has joined since their creation
    games,          \* server.js: the registry, room id -> room
    playerToServer  \* server.js: connection id -> the room id it is mapped to

vars == <<GAMES, currentGameID, conn, out, used, joined, games, playerToServer>>

\* The state of src/server.js, which the handlers of part_000 do not have.
hostVars == <<games, playerToServer>>
\* The state of part_000, which the handlers of src/server.js do not have.
partVars == <<GAMES, currentGameID, joined>>

NULL == "null"

\* ---------------------------------------------------------------- bounds
\* Connections (socket ids), in the order they connect.
SocketOrder == <<"s1", "s2", "s3">>
Sockets == {SocketOrder[i] : i \in 1..Len(SocketOrder)}
\* Values generateGameID can return.
RoomOrder == <<"A1B2C3", "D4E5F6">>
RoomIDs == {RoomOrder[i] : i \in 1..Len(RoomOrder)}
\* The territories kept of a map (the size table gives 50/100/150 of them).
KeptTerritories == <<"T-1", "T-2">>
MaxTerritories == Len(KeptTerritories)
\* createServer events in a run: as many as there are ids to generate.
MaxCreates == Len(RoomOrder)
\* Successful joins in a run.
MaxJoins == 3
\* Player actions that change a room in a run: of Spec, of SpecActions and of
\* SpecMoney.
MaxTurnsEnded == 1
MaxActs == 3
MaxMoneyActs == 8

\* ---------------------------------------------------------------- constants
BASE_CLAIM_COST == 500
UNIT_COST == 100
MAINTENANCE == 10
DefaultMaxPlayers == 8
DefaultStartingMoney == 5000
DefaultStartingMilitary == 20

Min(a, b) == IF a < b THEN a ELSE b

\* createInitialMap's size -> count table.
MapCount(mapSize) ==
    IF mapSize = "small" THEN 50
    ELSE IF mapSize = "medium" THEN 100
    ELSE IF mapSize = "large" THEN 150
    ELSE 100

\* Number of territories the model keeps of a map of that size.
TerritoryCount(mapSize) == Min(MapCount(mapSize), MaxTerritories)

\* Math.floor(Math.random() * 500) + 100 lies in 100..599; the two ends.
ProductionValues == {100, 599}
\* The maps drawn: the territories' production values, in key order.
ProductionDraws == {pv \in [1..MaxTerritories -> ProductionValues] : pv[1] # pv[MaxTerritories]}

\* createInitialMap: every territory unowned, zero units, a drawn value.
createInitialMap(mapSize, pv) ==
    [i \in 1..TerritoryCount(mapSize) |->
        [ownerId |-> NULL, militaryUnits |-> 0, productionValue |-> pv[i]]]

\* ---------------------------------------------------------------- emissions
\* socket.emit(ev, arg) reaches the connection whose handler runs (for
\* processAction, the acting player's socket); io.to(id).emit(ev, arg) reaches the
\* members of the room id (a socket id names that socket's own room).
ToSender(ev, arg) == [ev |-> ev, scope |-> "sender", to |-> "sender", arg |-> arg]
ToRoom(id, ev, arg) == [ev |-> ev, scope |-> "room", to |-> id, arg |-> arg]

\* ---------------------------------------------------------------- state
Init ==
    /\ GAMES = <<>>
    /\ currentGameID = [s \in Sockets |-> NULL]
    /\ conn = [s \in Sockets |-> "new"]
    /\ out = <<>>
    /\ used = [creates |-> 0, joins |-> 0, acts |-> 0]
    /\ joined = {}
    /\ games = <<>>
    /\ playerToServer = [s \in Sockets |-> NULL]

\* io.on('connection'): a new socket, its closure variable currentGameID null.
Connect(s) ==
    /\ conn[s] = "new"
    /\ \A i \in 1..Len(SocketOrder) :
          SocketOrder[i] = s => \A j \in 1..(i - 1) : conn[SocketOrder[j]] # "new"
    /\ conn' = [conn EXCEPT ![s] = "open"]
    /\ currentGameID' = [currentGameID EXCEPT ![s] = NULL]
    /\ out' = <<>>
    /\ UNCHANGED GAMES

\* ---------------------------------------------------------------- createServer
\* A key the client left out of data.settings.
Absent == -1
Override(default, given) == IF given = Absent THEN default ELSE given

\* The data a client sends with createServer: the defaults, and a small
\* password-protected room for two with little starting money.
CreateInputs ==
    { [password |-> NULL,
       settings |-> [maxPlayers |-> Absent, startingMoney |-> Absent, mapSize |-> NULL]],
      [password |-> "pw",
       settings |-> [maxPlayers |-> 2, startingMoney |-> 600, mapSize |-> "small"]] }

\* const settings = { defaults, ...data.settings }
Settings(data) ==
    [gameSpeed |-> "Standard",
     mapSize |-> IF data.settings.mapSize = NULL THEN "medium" ELSE data.settings.mapSize,
     maxPlayers |-> Override(DefaultMaxPlayers, data.settings.maxPlayers),
     startingMoney |-> Override(DefaultStartingMoney, data.settings.startingMoney),
     startingMilitary |-> DefaultStartingMilitary]

\* The room object stored at GAMES[newID].
NewGame(newID, data, pv) ==
    [id |-> newID,
     password |-> data.password,
     settings |-> Settings(data),
     playerIDs |-> <<>>,
     players |-> <<>>,
     gameState |-> [gamePhase |-> "LOBBY",
                    currentTurn |-> 1,
                    currentTurnPlayerId |-> NULL,
                    territories |-> createInitialMap(Settings(data).mapSize, pv)]]

\* GAMES[id] = game: a new key is appended, an existing one overwritten.
Store(registry, id, game) ==
    [k \in (DOMAIN registry) \cup {id} |-> IF k = id THEN game ELSE registry[k]]

\* A delete that leaves the registry as it was.
RemoveNothing(registry, id) == registry

\* A delete that empties the registry.
RemoveAll(registry, id) == <<>>

\* delete GAMES[id]
Remove(registry, id) == [k \in (DOMAIN registry) \ {id} |-> registry[k]]

\* socket.on('createServer'): the id is whatever generateGameID returns.
CreateServer(s, newID, data, pv) ==
    /\ conn[s] = "open"
    /\ GAMES' = Store(GAMES, newID, NewGame(newID, data, pv))
    /\ out' = <<ToSender("serverCreated", newID)>>
    /\ UNCHANGED <<currentGameID, conn>>

\* ---------------------------------------------------------------- joinServer
\* GAMES, game.players and state.territories are plain objects: obj[key] finds the
\* object's own keys and also the keys every object inherits, whose values
\* are truthy and have no ownerId, no password and no
\* players.  One inherited key stands for them.
InheritedKeys == {"constructor"}

\* Whether obj[key] is truthy, for an object with the own keys ownKeys.
Found(ownKeys, key) == key \in ownKeys \/ key \in InheritedKeys

\* The ids a client asks to join: the generated ones and an inherited key.
JoinIDs == RoomIDs \cup InheritedKeys

\* The hostName a connection's client sends (NULL: none): the first one a name.
HostNames(s) == IF s = SocketOrder[1] THEN {"Ann"} ELSE {NULL}
Passwords == {NULL, "pw"}

DefaultName(n) == <<"Player 1", "Player 2", "Player 3", "Player 4", "Player 5">>[n]

\* The player object a successful join stores.
NewPlayer(game, playerID, hostName) ==
    [id |-> playerID,
     name |-> IF hostName # NULL THEN hostName ELSE DefaultName(Len(game.playerIDs) + 1),
     isReady |-> FALSE,
     resources |-> [money |-> game.settings.startingMoney,
                    military |-> game.settings.startingMilitary,
                    production |-> 0,
                    research |-> 0]]

\* game.players[playerID] = player: a new key goes last, an old one keeps its place.
PutPlayer(game, playerID, player) ==
    [game EXCEPT
       !.playerIDs = IF playerID \in DOMAIN game.players THEN @ ELSE Append(@, playerID),
       !.players = [k \in (DOMAIN game.players) \cup {playerID} |->
                       IF k = playerID THEN player ELSE game.players[k]]]

\* A join that hands the turn to whoever joins.
AssignTurnAlways(game, playerID) ==
    [game EXCEPT !.gameState.currentTurnPlayerId = playerID,
                 !.gameState.gamePhase = "ACTIVE"]

\* The first player to arrive takes the turn and the room goes ACTIVE.
AssignFirstTurn(game, playerID) ==
    IF game.gameState.currentTurnPlayerId = NULL
    THEN [game EXCEPT !.gameState.currentTurnPlayerId = playerID,
                      !.gameState.gamePhase = "ACTIVE"]
    ELSE game

\* Object.keys(game.players) of a value without players throws.
Thrown == "TypeError: Cannot convert undefined or null to object"

\* How a join ends: NULL when it succeeds, Thrown when the handler throws, else
\* the text of the joinFailed it emits.  An inherited key of GAMES passes
\* !game and the password test (its value has no password) and is then asked
\* for the keys of its players.
JoinFailure(serverID, password) ==
    IF ~Found(DOMAIN GAMES, serverID) THEN "Server not found."
    ELSE IF serverID \notin DOMAIN GAMES THEN Thrown
    ELSE IF GAMES[serverID].password # NULL /\ GAMES[serverID].password # password
         THEN "Incorrect password."
    ELSE IF Len(GAMES[serverID].playerIDs) >= GAMES[serverID].settings.maxPlayers
         THEN "Server is full."
    ELSE NULL

JoinedGame(game, playerID, hostName) ==
    AssignFirstTurn(PutPlayer(game, playerID, NewPlayer(game, playerID, hostName)), playerID)

\* socket.on('joinServer')
JoinServer(s, serverID, password, hostName) ==
    /\ conn[s] = "open"
    /\ UNCHANGED conn
    /\ IF JoinFailure(serverID, password) = Thrown
       THEN /\ out' = <<>>
            /\ UNCHANGED <<GAMES, currentGameID>>
       ELSE IF JoinFailure(serverID, password) # NULL
       THEN /\ out' = <<ToSender("joinFailed", JoinFailure(serverID, password))>>
            /\ UNCHANGED <<GAMES, currentGameID>>
       ELSE /\ currentGameID' = [currentGameID EXCEPT ![s] = serverID]
            /\ GAMES' = [GAMES EXCEPT ![serverID] = JoinedGame(@, s, hostName)]
            /\ out' = <<ToRoom(serverID, "globalChat", "has joined the game."),
                        ToSender("initialState", "full"),
                        ToRoom(serverID, "stateUpdate", "players, currentTurn")>>

\* ---------------------------------------------------------------- processAction
\* The own keys of state.territories, and the place of one ("T-i" is at i, others at 0).
TerritoryKeys(state) == {KeptTerritories[i] : i \in 1..Len(state.territories)}
TerritoryIndex(state, key) ==
    IF key \in TerritoryKeys(state)
    THEN CHOOSE i \in 1..Len(state.territories) : KeptTerritories[i] = key
    ELSE 0

\* Object.values(state.territories).filter(pred), as the indices kept, in key order.
TerritoriesWhere(state, Pred(_)) ==
    SelectSeq([i \in 1..Len(state.territories) |-> i], LAMBDA i : Pred(state.territories[i]))

OwnedBy(state, pId) == TerritoriesWhere(state, LAMBDA t : t.ownerId = pId)
Unclaimed(state) == TerritoriesWhere(state, LAMBDA t : t.ownerId = NULL)

\* list[Math.floor(Math.random() * list.length)], rnd standing for the draw.
RandomPick(list, rnd) == list[(rnd % Len(list)) + 1]

\* Turn-end effects that reach the turn holder only.
applyTurnEndEffectsHolderOnly(game) ==
    [game EXCEPT !.players =
        [pId \in DOMAIN game.players |->
            IF pId # game.gameState.currentTurnPlayerId THEN game.players[pId]
            ELSE [game.players[pId] EXCEPT !.resources.money =
                    (@ + (game.players[pId].resources.research
                          + game.players[pId].resources.production))
                    - Len(OwnedBy(game.gameState, pId)) * MAINTENANCE]]]

\* applyTurnEndEffects: every player's income and maintenance.
applyTurnEndEffects(game) ==
    [game EXCEPT !.players =
        [pId \in DOMAIN game.players |->
            [game.players[pId] EXCEPT !.resources.money =
                (@ + (game.players[pId].resources.research
                      + game.players[pId].resources.production))
                - Len(OwnedBy(game.gameState, pId)) * MAINTENANCE]]]

\* playerIDs.indexOf(id): the 0-based place, -1 when absent.
IndexOf(seq, x) ==
    IF \E i \in 1..Len(seq) : seq[i] = x
    THEN (CHOOSE i \in 1..Len(seq) : seq[i] = x /\ \A j \in 1..(i - 1) : seq[j] # x) - 1
    ELSE -1

\* A rotation that always hands the turn to the first key.
getNextPlayerIdFirst(game) ==
    IF Len(game.playerIDs) = 0 THEN NULL ELSE game.playerIDs[1]

getNextPlayerId(game) ==
    IF Len(game.playerIDs) = 0 THEN NULL
    ELSE IF game.gameState.currentTurnPlayerId = NULL THEN game.playerIDs[1]
    ELSE game.playerIDs[((IndexOf(game.playerIDs, game.gameState.currentTurnPlayerId) + 1)
                           % Len(game.playerIDs)) + 1]

\* The outcome of a branch: the room afterwards, what was emitted, and whether the
\* branch reached the broadcast at the end of processAction.
Rejected(game, playerID, text) ==
    [game |-> game, out |-> <<ToSender("globalChat", text)>>, done |-> FALSE]
Completed(game, emitted) ==
    [game |-> game, out |-> emitted, done |-> TRUE]

\* A claim that forgets to credit the territory's production.
TakeTerritoryNoProduction(game, playerID, i) ==
    [game EXCEPT
        !.players[playerID].resources.money = @ - BASE_CLAIM_COST,
        !.gameState.territories[i].ownerId = playerID,
        !.gameState.territories[i].militaryUnits = 1]

\* Execute Claim / Execute Expansion: pay, take the territory, garrison one unit.
TakeTerritory(game, playerID, i) ==
    [game EXCEPT
        !.players[playerID].resources.money = @ - BASE_CLAIM_COST,
        !.gameState.territories[i].ownerId = playerID,
        !.gameState.territories[i].militaryUnits = 1,
        !.players[playerID].resources.production =
            @ + game.gameState.territories[i].productionValue]

\* terrClaim.ownerId !== null: an inherited value has no ownerId, and undefined
\* is not null.
OwnerIsNotNull(state, key) ==
    IF key \in TerritoryKeys(state)
    THEN state.territories[TerritoryIndex(state, key)].ownerId # NULL
    ELSE TRUE

ClaimTerritory(game, playerID, action) ==
    IF ~Found(TerritoryKeys(game.gameState), action.territoryId)
    THEN Rejected(game, playerID, "ERROR: Territory not found.")
    ELSE IF OwnerIsNotNull(game.gameState, action.territoryId)
    THEN Rejected(game, playerID, "ERROR: Territory is already claimed.")
    ELSE IF game.players[playerID].resources.money < BASE_CLAIM_COST
    THEN Rejected(game, playerID, "ERROR: Not enough money!")
    ELSE Completed(TakeTerritory(game, playerID,
                                 TerritoryIndex(game.gameState, action.territoryId)), <<>>)

\* An expansion that draws among all territories, claimed or not.
ExpandLandAnyTerritory(game, playerID, rnd) ==
    IF Len(Unclaimed(game.gameState)) = 0
    THEN Rejected(game, playerID, "ERROR: No unclaimed land left to expand into!")
    ELSE IF game.players[playerID].resources.money < BASE_CLAIM_COST
    THEN Rejected(game, playerID, "ERROR: Expansion requires $500.")
    ELSE Completed(TakeTerritory(game, playerID,
                                 (rnd % Len(game.gameState.territories)) + 1), <<>>)

ExpandLand(game, playerID, rnd) ==
    IF Len(Unclaimed(game.gameState)) = 0
    THEN Rejected(game, playerID, "ERROR: No unclaimed land left to expand into!")
    ELSE IF game.players[playerID].resources.money < BASE_CLAIM_COST
    THEN Rejected(game, playerID, "ERROR: Expansion requires $500.")
    ELSE Completed(TakeTerritory(game, playerID, RandomPick(Unclaimed(game.gameState), rnd)),
                   <<>>)

BuildUnit(game, playerID, rnd) ==
    IF Len(OwnedBy(game.gameState, playerID)) = 0
    THEN Rejected(game, playerID, "ERROR: You must own a territory to build units.")
    ELSE IF game.players[playerID].resources.money < UNIT_COST
    THEN Rejected(game, playerID, "ERROR: Building a unit requires $100.")
    ELSE Completed(
            [game EXCEPT
                !.players[playerID].resources.money = @ - UNIT_COST,
                !.gameState.territories[RandomPick(OwnedBy(game.gameState, playerID), rnd)]
                    .militaryUnits = @ + 1],
            <<>>)

ProposeTruce(game, playerID, action) ==
    IF ~Found(DOMAIN game.players, action.targetId)
    THEN Rejected(game, playerID, "ERROR: Target player not found.")
    ELSE Completed(game, <<ToRoom(action.targetId, "truceProposal", playerID)>>)

\* An END_TURN that counts a turn every time.
EndTurnAlwaysCounts(game) ==
    LET after == applyTurnEndEffects(game)
    IN  Completed(
            [after EXCEPT
                !.gameState.currentTurn = @ + 1,
                !.gameState.currentTurnPlayerId = getNextPlayerId(after)],
            <<>>)

\* END_TURN: the counter moves when the next player is the first key and the
\* phase is ACTIVE.
EndTurn(game) ==
    LET after == applyTurnEndEffects(game)
        nextPlayerId == getNextPlayerId(after)
        wraps == Len(after.playerIDs) > 0 /\ nextPlayerId = after.playerIDs[1]
                 /\ after.gameState.gamePhase = "ACTIVE"
    IN  Completed(
            [after EXCEPT
                !.gameState.currentTurn = IF wraps THEN @ + 1 ELSE @,
                !.gameState.currentTurnPlayerId = nextPlayerId],
            <<>>)

Placeholders ==
    {"RESEARCH", "CREATE_BUILDING", "UPGRADE_TERRITORY", "START_TASK",
     "PROPOSE_ALLY", "PROPOSE_TRADE"}

\* The switch of processAction.
Dispatch(game, playerID, action, rnd) ==
    CASE action.type = "CLAIM_TERRITORY" -> ClaimTerritory(game, playerID, action)
      [] action.type = "ATTACK_TERRITORY" -> Completed(game, <<>>)
      [] action.type = "EXPAND_LAND" -> ExpandLand(game, playerID, rnd)
      [] action.type = "BUILD_UNIT" -> BuildUnit(game, playerID, rnd)
      [] action.type = "PROPOSE_TRUCE" -> ProposeTruce(game, playerID, action)
      [] action.type \in Placeholders ->
            Completed(game, <<ToSender("globalChat", "Action received.")>>)
      [] action.type = "END_TURN" -> EndTurn(game)
      [] OTHER -> Completed(game, <<>>)

\* A processAction without the turn validation.
TurnCheckSkipped(game, playerID, action) == TRUE

\* Turn validation: the holder passes, and so does any action typed DISCONNECT.
TurnCheckPasses(game, playerID, action) ==
    ~(game.gameState.currentTurnPlayerId # playerID /\ action.type # "DISCONNECT")

\* processAction: validation, the switch, then the stateUpdate to the room for
\* every branch that did not return early.
processAction(game, playerID, action, rnd) ==
    IF ~TurnCheckPasses(game, playerID, action)
    THEN Rejected(game, playerID, "ERROR: It is not your turn to act.")
    ELSE LET r == Dispatch(game, playerID, action, rnd)
         IN  IF r.done
             THEN [r EXCEPT !.out = Append(@, ToRoom(game.id, "stateUpdate", "full"))]
             ELSE r

\* ---------------------------------------------------------------- playerAction
Act(type, territoryId, targetId) ==
    [type |-> type, territoryId |-> territoryId, targetId |-> targetId]

\* The actions a client sends.  T-0 is an id no map has, FOO a type the switch
\* does not know, DISCONNECT the type the turn check exempts; NULL is a field
\* left out.
ActionInputs ==
    {Act("CLAIM_TERRITORY", t, NULL) :
        t \in {KeptTerritories[i] : i \in 1..MaxTerritories} \cup {"T-0"} \cup InheritedKeys}
    \cup {Act(ty, NULL, NULL) : ty \in {"ATTACK_TERRITORY", "EXPAND_LAND", "BUILD_UNIT",
                                        "RESEARCH", "END_TURN", "FOO", "DISCONNECT"}}
    \cup {Act("PROPOSE_TRUCE", NULL, x) : x \in Sockets \cup {NULL} \cup InheritedKeys}

\* The draws of Math.random() that matter: an index into a list of territories,
\* for the two actions that draw.
Draws(action) ==
    IF action.type \in {"EXPAND_LAND", "BUILD_UNIT"} THEN 0..(MaxTerritories - 1) ELSE {0}

\* const game = GAMES[currentGameID]
GameOf(s) == IF currentGameID[s] \in DOMAIN GAMES THEN GAMES[currentGameID[s]] ELSE NULL

\* socket.on('playerAction')
PlayerAction(s, action, rnd) ==
    /\ conn[s] = "open"
    /\ UNCHANGED <<currentGameID, conn>>
    /\ IF currentGameID[s] \in DOMAIN GAMES
       THEN /\ GAMES' = [GAMES EXCEPT ![currentGameID[s]] =
                            processAction(@, s, action, rnd).game]
            /\ out' = processAction(GameOf(s), s, action, rnd).out
       ELSE /\ out' = <<>>
            /\ UNCHANGED GAMES

\* socket.on('chatMessage')
ChatMessage(s) ==
    /\ conn[s] = "open"
    /\ out' = IF currentGameID[s] \in DOMAIN GAMES /\ s \in DOMAIN GameOf(s).players
              THEN <<ToRoom(currentGameID[s], "globalChat", "chat")>>
              ELSE <<>>
    /\ UNCHANGED <<GAMES, currentGameID, conn>>

\* ---------------------------------------------------------------- disconnect
\* delete game.players[playerID]
DeletePlayer(game, playerID) ==
    [game EXCEPT
        !.playerIDs = SelectSeq(@, LAMBDA k : k # playerID),
        !.players = [k \in (DOMAIN game.players) \ {playerID} |-> game.players[k]]]

\* A disconnect that removes the holder without ending the turn.
VacateTurnSkipped(game, playerID) == [game |-> game, out |-> <<>>, done |-> FALSE]

\* The holder's turn is ended first, through processAction.
VacateTurn(game, playerID) ==
    IF game.gameState.currentTurnPlayerId = playerID
    THEN processAction(game, playerID, Act("END_TURN", NULL, NULL), 0)
    ELSE [game |-> game, out |-> <<>>, done |-> FALSE]

\* socket.on('disconnect'): only the room currentGameID names is looked at.  The
\* closure variable dies with the socket; it is reset so that no dead value is kept.
Disconnect(s) ==
    /\ conn[s] = "open"
    /\ conn' = [conn EXCEPT ![s] = "closed"]
    /\ currentGameID' = [currentGameID EXCEPT ![s] = NULL]
    /\ IF currentGameID[s] \in DOMAIN GAMES /\ s \in DOMAIN GameOf(s).players
       THEN LET id == currentGameID[s]
                vacated == VacateTurn(GameOf(s), s)
                left == DeletePlayer(vacated.game, s)
                chat == ToRoom(id, "globalChat", "has left the game.")
            IN  IF Len(left.playerIDs) = 0
                THEN /\ GAMES' = Remove(GAMES, id)
                     /\ out' = vacated.out \o <<chat>>
                ELSE /\ GAMES' = [GAMES EXCEPT ![id] = left]
                     /\ out' = vacated.out \o <<chat, ToRoom(id, "stateUpdate", "players")>>
       ELSE /\ out' = <<>>
            /\ UNCHANGED GAMES

\* ---------------------------------------------------------------- specifications
\* One event of each handler, with inputs drawn from the given sets.  The budget
\* in `used` is spent by a createServer, by a successful join and by a player
\* action that changes the room.  `joined` records which registered rooms have
\* had a successful join since the createServer that made them.
Spend(kind, max) == used[kind] < max /\ used' = [used EXCEPT ![kind] = @ + 1]

ConnectStep(socks) == \E s \in socks : Connect(s) /\ UNCHANGED <<used, joined, hostVars>>

CreateStep(socks, ids, draws, max) ==
    \E s \in socks, newID \in ids, data \in CreateInputs, pv \in draws :
        /\ CreateServer(s, newID, data, pv)
        /\ Spend("creates", max)
        /\ joined' = joined \ {newID}
        /\ UNCHANGED hostVars

JoinStep(socks, ids, max) ==
    \E s \in socks, serverID \in ids, password \in Passwords :
        \E hostName \in HostNames(s) :
            /\ JoinServer(s, serverID, password, hostName)
            /\ IF JoinFailure(serverID, password) = NULL
               THEN Spend("joins", max) /\ joined' = joined \cup {serverID}
               ELSE UNCHANGED <<used, joined>>
            /\ UNCHANGED hostVars

ActionStep(socks, inputs, max) ==
    \E s \in socks, action \in inputs :
        \E rnd \in Draws(action) :
            /\ PlayerAction(s, action, rnd)
            /\ IF GAMES' # GAMES THEN Spend("acts", max) ELSE UNCHANGED used
            /\ UNCHANGED <<joined, hostVars>>

ChatStep(socks) == \E s \in socks : ChatMessage(s) /\ UNCHANGED <<used, joined, hostVars>>

DisconnectStep(socks) ==
    \E s \in socks :
        /\ Disconnect(s)
        /\ joined' = joined \cap DOMAIN GAMES'
        /\ UNCHANGED <<used, hostVars>>

\* Spec: three connections, both room ids, one map, and of the player actions
\* those that touch the turn.
TurnInputs == {a \in ActionInputs : a.type \in {"END_TURN", "DISCONNECT", "FOO"}}
OneDraw == {CHOOSE pv \in ProductionDraws : pv[1] < pv[MaxTerritories]}

Next ==
    \/ ConnectStep(Sockets)
    \/ CreateStep(Sockets, RoomIDs, OneDraw, MaxCreates)
    \/ JoinStep(Sockets, JoinIDs, MaxJoins)
    \/ ActionStep(Sockets, TurnInputs, MaxTurnsEnded)
    \/ ChatStep(Sockets)
    \/ DisconnectStep(Sockets)

Spec == Init /\ [][Next]_vars

\* SpecActions: two connections, one room id generated once, every player action.
TwoSockets == {SocketOrder[1], SocketOrder[2]}

NextActions ==
    \/ ConnectStep(TwoSockets)
    \/ CreateStep(TwoSockets, {RoomOrder[1]}, ProductionDraws, 1)
    \/ JoinStep(TwoSockets, {RoomOrder[1]}, MaxJoins)
    \/ ActionStep(TwoSockets, ActionInputs, MaxActs)
    \/ ChatStep(TwoSockets)
    \/ DisconnectStep(TwoSockets)

SpecActions == Init /\ [][NextActions]_vars

\* SpecMoney: one connection, one room id generated once, one map, and the
\* actions that move money: a claim, unit builds and turn ends, in a longer run.
OneSocket == {SocketOrder[1]}
MoneyInputs ==
    {Act("CLAIM_TERRITORY", KeptTerritories[1], NULL),
     Act("BUILD_UNIT", NULL, NULL),
     Act("END_TURN", NULL, NULL)}

NextMoney ==
    \/ ConnectStep(OneSocket)
    \/ CreateStep(OneSocket, {RoomOrder[1]}, OneDraw, 1)
    \/ JoinStep(OneSocket, {RoomOrder[1]}, MaxJoins)
    \/ ActionStep(OneSocket, MoneyInputs, MaxMoneyActs)
    \/ ChatStep(OneSocket)
    \/ DisconnectStep(OneSocket)

SpecMoney == Init /\ [][NextMoney]_vars

\* ---------------------------------------------------------------- server.js
\* The variant of src/server.js.  A room is serverData, the key order of its
\* players (playerIDs) and the players themselves; serverName, description,
\* gameSpeed, mapData and score are left out (no handler reads them back).
MAX_PLAYERS == 8

\* The hostName the client of a connection sends.
ClientNames == <<"Ann", "Bob", "Cy">>
SvHostName(s) == ClientNames[CHOOSE i \in 1..Len(SocketOrder) : SocketOrder[i] = s]

\* The data the client of a connection sends with createServer: the first
\* one nothing but its name, the others a password-protected room for two.
SvCreateInputs(s) ==
    IF s = SocketOrder[1]
    THEN {[maxPlayers |-> Absent, password |-> NULL]}
    ELSE {[maxPlayers |-> 2, password |-> "pw"]}

\* The room createServer stores: the creator is its host and only player and
\* has the turn.
SvNewGame(serverID, playerID, data) ==
    [serverData |-> [id |-> serverID,
                     hostID |-> playerID,
                     hostName |-> SvHostName(playerID),
                     maxPlayers |-> Override(MAX_PLAYERS, data.maxPlayers),
                     currentPlayers |-> 1,
                     password |-> data.password,
                     turn |-> 1],
     playerIDs |-> <<playerID>>,
     players |-> [k \in {playerID} |->
                    [id |-> playerID, name |-> SvHostName(playerID), isTurn |-> TRUE]]]

\* broadcastGameState: a stateUpdate to the room, if it is registered.
broadcastGameState(registry, serverID) ==
    IF serverID \in DOMAIN registry
    THEN <<ToRoom(serverID, "stateUpdate", "serverData, players")>>
    ELSE <<>>

\* io.on('connection') of server.js
SvConnect(s) ==
    /\ conn[s] = "new"
    /\ \A i \in 1..Len(SocketOrder) :
          SocketOrder[i] = s => \A j \in 1..(i - 1) : conn[SocketOrder[j]] # "new"
    /\ conn' = [conn EXCEPT ![s] = "open"]
    /\ out' = <<>>
    /\ UNCHANGED hostVars

\* socket.on('createServer'): the id is whatever generateServerID returns.
SvCreateServer(s, serverID, data) ==
    /\ conn[s] = "open"
    /\ games' = Store(games, serverID, SvNewGame(serverID, s, data))
    /\ playerToServer' = [playerToServer EXCEPT ![s] = serverID]
    /\ out' = <<ToSender("serverCreated", serverID)>>
    /\ UNCHANGED conn

\* How a join ends: NULL when it succeeds, Thrown when the handler throws (an
\* inherited key of games has no serverData), else the joinFailed text.
SvJoinFailure(serverID, password) ==
    IF ~Found(DOMAIN games, serverID) THEN "Server ID not found."
    ELSE IF serverID \notin DOMAIN games THEN Thrown
    ELSE IF games[serverID].serverData.currentPlayers >= games[serverID].serverData.maxPlayers
         THEN "Server is full."
    ELSE IF games[serverID].serverData.password # NULL
            /\ games[serverID].serverData.password # password
         THEN "Incorrect password."
    ELSE NULL

\* The room after a successful join: the counter goes up, the entry is stored
\* (a new key goes last, an old one keeps its place) and never has the turn.
SvJoinedGame(game, playerID) ==
    [PutPlayer(game, playerID,
               [id |-> playerID, name |-> SvHostName(playerID), isTurn |-> FALSE])
        EXCEPT !.serverData.currentPlayers = @ + 1]

\* socket.on('joinServer')
SvJoinServer(s, serverID, password) ==
    /\ conn[s] = "open"
    /\ UNCHANGED conn
    /\ IF SvJoinFailure(serverID, password) = Thrown
       THEN /\ out' = <<>>
            /\ UNCHANGED hostVars
       ELSE IF SvJoinFailure(serverID, password) # NULL
       THEN /\ out' = <<ToSender("joinFailed", SvJoinFailure(serverID, password))>>
            /\ UNCHANGED hostVars
       ELSE /\ games' = [games EXCEPT ![serverID] = SvJoinedGame(@, s)]
            /\ playerToServer' = [playerToServer EXCEPT ![s] = serverID]
            /\ out' = <<ToSender("initialState", "full"),
                        ToRoom(serverID, "globalChat", "has joined the game.")>>
                      \o broadcastGameState(games', serverID)

\* socket.on('requestServerList')
SvRequestServerList(s) ==
    /\ conn[s] = "open"
    /\ out' = <<ToSender("serverList", "public list")>>
    /\ UNCHANGED <<conn, hostVars>>

\* const player = game?.players[socket.id]
SvIsPlayer(s) ==
    /\ playerToServer[s] \in DOMAIN games
    /\ s \in DOMAIN games[playerToServer[s]].players

\* END_TURN of a player who has the turn: the flag goes to the next key, the
\* first after the last, and the turn counter goes up.
SvEndTurn(game, playerID) ==
    LET nextPlayerID ==
            game.playerIDs[((IndexOf(game.playerIDs, playerID) + 1) % Len(game.playerIDs)) + 1]
    IN  [game EXCEPT
            !.serverData.turn = @ + 1,
            !.players = [k \in DOMAIN game.players |->
                            [game.players[k] EXCEPT !.isTurn =
                                IF k = nextPlayerID THEN TRUE
                                ELSE IF k = playerID THEN FALSE ELSE @]]]

SvActionTypes == {"END_TURN", "FOO"}

\* socket.on('playerAction'): only END_TURN of the player with the turn does anything.
SvPlayerAction(s, type) ==
    /\ conn[s] = "open"
    /\ UNCHANGED <<conn, playerToServer>>
    /\ IF SvIsPlayer(s) /\ type = "END_TURN" /\ games[playerToServer[s]].players[s].isTurn
       THEN /\ games' = [games EXCEPT ![playerToServer[s]] = SvEndTurn(@, s)]
            /\ out' = <<ToRoom(playerToServer[s], "globalChat", "It is now the next player's turn.")>>
                      \o broadcastGameState(games', playerToServer[s])
       ELSE /\ out' = <<>>
            /\ UNCHANGED games

\* socket.on('chatMessage')
SvChatMessage(s) ==
    /\ conn[s] = "open"
    /\ out' = IF SvIsPlayer(s)
              THEN <<ToRoom(playerToServer[s], "globalChat", "chat")>>
              ELSE <<>>
    /\ UNCHANGED <<conn, hostVars>>

\* If the host left, the first remaining key becomes the host, when there is one.
MigrateHost(game, playerID) ==
    IF game.serverData.hostID = playerID /\ Len(game.playerIDs) > 0
    THEN [game |-> [game EXCEPT
                       !.serverData.hostID = game.playerIDs[1],
                       !.serverData.hostName = game.players[game.playerIDs[1]].name],
          out |-> <<ToRoom(game.serverData.id, "globalChat", "is the new host.")>>]
    ELSE [game |-> game, out |-> <<>>]

\* socket.on('disconnect'): the room playerToServer names loses the key and
\* one from its counter, and is deleted when the counter reaches 0.
SvDisconnect(s) ==
    /\ conn[s] = "open"
    /\ conn' = [conn EXCEPT ![s] = "closed"]
    /\ IF playerToServer[s] \in DOMAIN games
       THEN LET serverID == playerToServer[s]
                left == [DeletePlayer(games[serverID], s)
                            EXCEPT !.serverData.currentPlayers = @ - 1]
                chat == ToRoom(serverID, "globalChat", "has left the game.")
                migrated == MigrateHost(left, s)
            IN  /\ playerToServer' = [playerToServer EXCEPT ![s] = NULL]
                /\ IF left.serverData.currentPlayers = 0
                   THEN /\ games' = Remove(games, serverID)
                        /\ out' = <<chat>>
                   ELSE /\ games' = [games EXCEPT ![serverID] = migrated.game]
                        /\ out' = <<chat>> \o migrated.out
                                  \o broadcastGameState(games', serverID)
       ELSE /\ out' = <<>>
            /\ UNCHANGED hostVars

\* SpecHost: the handlers of server.js, three connections, both room ids.
SvConnectStep == \E s \in Sockets : SvConnect(s) /\ UNCHANGED <<used, partVars>>

SvCreateStep ==
    \E s \in Sockets, serverID \in RoomIDs :
        \E data \in SvCreateInputs(s) :
            /\ SvCreateServer(s, serverID, data)
            /\ Spend("creates", MaxCreates)
            /\ UNCHANGED partVars

SvJoinStep ==
    \E s \in Sockets, serverID \in JoinIDs, password \in Passwords :
        /\ SvJoinServer(s, serverID, password)
        /\ IF SvJoinFailure(serverID, password) = NULL
           THEN Spend("joins", MaxJoins) ELSE UNCHANGED used
        /\ UNCHANGED partVars

SvListStep == \E s \in Sockets : SvRequestServerList(s) /\ UNCHANGED <<used, partVars>>

SvActionStep ==
    \E s \in Sockets, type \in SvActionTypes :
        /\ SvPlayerAction(s, type)
        /\ IF games' # games THEN Spend("acts", MaxTurnsEnded) ELSE UNCHANGED used
        /\ UNCHANGED partVars

SvChatStep == \E s \in Sockets : SvChatMessage(s) /\ UNCHANGED <<used, partVars>>

SvDisconnectStep == \E s \in Sockets : SvDisconnect(s) /\ UNCHANGED <<used, partVars>>

NextHost ==
    \/ SvConnectStep
    \/ SvCreateStep
    \/ SvJoinStep
    \/ SvListStep
    \/ SvActionStep
    \/ SvChatStep
    \/ SvDisconnectStep

SpecHost == Init /\ [][NextHost]_vars

\* ---------------------------------------------------------------- claims
Holder(id) == GAMES[id].gameState.currentTurnPlayerId
Members(id) == DOMAIN GAMES[id].players

\* A connection whose playerAction reaches processAction.
InRoom(s) == conn[s] = "open" /\ currentGameID[s] \in DOMAIN GAMES

\* The key after x in the key order ids, the first key after the last.
After(ids, x) ==
    LET i == CHOOSE k \in 1..Len(ids) : ids[k] = x
    IN  ids[IF i = Len(ids) THEN 1 ELSE i + 1]

OnlySender(emitted) == \A i \in 1..Len(emitted) : emitted[i].scope = "sender"

NotYourTurn == <<ToSender("globalChat", "ERROR: It is not your turn to act.")>>

\* C1: every registered room's currentTurnPlayerId is null or a key of that
\* room's players mapping.
C1_HolderIsPlayer ==
    \A id \in DOMAIN GAMES : Holder(id) = NULL \/ Holder(id) \in Members(id)

\* C1 witness: the holder has just disconnected from a room that lives on: its
\* turn was ended, it was removed, and the room's holder is one of the rest.
C1_HolderLeft ==
    \E id \in DOMAIN GAMES :
        /\ out = <<ToRoom(id, "stateUpdate", "full"),
                   ToRoom(id, "globalChat", "has left the game."),
                   ToRoom(id, "stateUpdate", "players")>>
        /\ Holder(id) \in Members(id)

\* C2: whatever action a player who does not hold the turn submits, processAction
\* returns the room as it was: territories, players, currentTurn,
\* currentTurnPlayerId and gamePhase.
C2_NonHolderChangesNothing ==
    \A s \in Sockets, action \in ActionInputs :
        \A rnd \in Draws(action) :
            (InRoom(s) /\ GameOf(s).gameState.currentTurnPlayerId # s)
            => LET r == processAction(GameOf(s), s, action, rnd).game
               IN  /\ r.gameState = GameOf(s).gameState
                   /\ r.players = GameOf(s).players
                   /\ r.playerIDs = GameOf(s).playerIDs

\* C2 witness: in a room of two, the one who does not hold the turn was turned away.
C2_NonHolderRejected ==
    /\ out = NotYourTurn
    /\ \E id \in DOMAIN GAMES : Len(GAMES[id].playerIDs) = 2 /\ Holder(id) \in Members(id)

\* C3 (as claimed): an action of a player who does not hold the turn is answered
\* to that player's connection only; nothing is emitted to the room.
C3_NonHolderNotBroadcast ==
    [][\A s \in Sockets, action \in ActionInputs :
         \A rnd \in Draws(action) :
            (/\ InRoom(s)
             /\ GameOf(s).gameState.currentTurnPlayerId # s
             /\ PlayerAction(s, action, rnd))
            => OnlySender(out')]_vars

\* C4: END_TURN by the holder hands the turn to the next key of the players
\* mapping, the first after the last, and adds one to currentTurn exactly when
\* that next key is the first key and the phase is ACTIVE.
C4_EndTurnRotates ==
    \A s \in Sockets :
        (InRoom(s) /\ GameOf(s).gameState.currentTurnPlayerId = s)
        => LET g == GameOf(s)
               r == processAction(g, s, Act("END_TURN", NULL, NULL), 0).game
               next == After(g.playerIDs, s)
           IN  /\ r.playerIDs = g.playerIDs
               /\ r.gameState.currentTurnPlayerId = next
               /\ r.gameState.currentTurn =
                    IF next = g.playerIDs[1] /\ g.gameState.gamePhase = "ACTIVE"
                    THEN g.gameState.currentTurn + 1
                    ELSE g.gameState.currentTurn

\* C4 witness: in a room of three the first player ended the turn: the second
\* holds it and the counter has not moved.
C4_TurnPassedOn ==
    \E id \in DOMAIN GAMES :
        /\ Len(GAMES[id].playerIDs) = 3
        /\ Holder(id) = GAMES[id].playerIDs[2]
        /\ GAMES[id].gameState.currentTurn = 1
        /\ out = <<ToRoom(id, "stateUpdate", "full")>>

\* The step is the disconnect of s.
Disconnects(s) == conn[s] = "open" /\ conn'[s] = "closed"

\* C5 (as claimed): when the holder disconnects from a room that has another
\* player, the room's holder afterwards is the player who followed it in key
\* order; when another player disconnects, the room's holder stays.
C5_HolderDisconnectPassesTurn ==
    [][\A s \in Sockets :
         Disconnects(s)
         => \A id \in DOMAIN GAMES :
               (s \in Members(id) /\ Len(GAMES[id].playerIDs) >= 2)
               => /\ id \in DOMAIN GAMES'
                  /\ GAMES'[id].gameState.currentTurnPlayerId =
                        IF Holder(id) = s THEN After(GAMES[id].playerIDs, s) ELSE Holder(id)]_vars

\* C5, for the one room the handler looks at (the room currentGameID names): there
\* the turn is passed on before the holder is removed.
C5_InCurrentRoom ==
    [][\A s \in Sockets :
         (Disconnects(s) /\ InRoom(s) /\ s \in Members(currentGameID[s])
          /\ Len(GameOf(s).playerIDs) >= 2)
         => LET id == currentGameID[s]
            IN  /\ id \in DOMAIN GAMES'
                /\ s \notin DOMAIN GAMES'[id].players
                /\ GAMES'[id].gameState.currentTurnPlayerId =
                      IF Holder(id) = s THEN After(GAMES[id].playerIDs, s) ELSE Holder(id)]_vars

\* C6 (as claimed): a connection id is a key of the players mapping of at most
\* one registered room.
C6_OneRoomPerPlayer ==
    \A s \in Sockets : Cardinality({id \in DOMAIN GAMES : s \in Members(id)}) <= 1

\* C7 (as claimed): once a connection has disconnected, its id is a key of no
\* registered room's players mapping and no registered room's currentTurnPlayerId.
C7_DisconnectedPlayerGone ==
    \A s \in Sockets :
        conn[s] = "closed"
        => \A id \in DOMAIN GAMES : s \notin Members(id) /\ Holder(id) # s

\* C8: the disconnect of a room's only player removes the room in that step; a
\* joinServer for an id that is not registered fails with 'Server not found.' and
\* registers nothing; and a registered room without players is one nobody has
\* joined yet (LOBBY, no turn holder).
C8_EmptyRoomRemoved ==
    [][/\ \A s \in Sockets :
            (Disconnects(s) /\ InRoom(s) /\ Members(currentGameID[s]) = {s})
            => currentGameID[s] \notin DOMAIN GAMES'
       /\ \A s \in Sockets, id \in RoomIDs \ DOMAIN GAMES, password \in Passwords :
            \A hostName \in HostNames(s) :
                JoinServer(s, id, password, hostName)
                => /\ GAMES' = GAMES
                   /\ out' = <<ToSender("joinFailed", "Server not found.")>>
       /\ \A id \in DOMAIN GAMES' :
            Len(GAMES'[id].playerIDs) = 0
            => /\ GAMES'[id].gameState.gamePhase = "LOBBY"
               /\ GAMES'[id].gameState.currentTurnPlayerId = NULL]_vars

\* C8 witness: the one room created was joined, its last player has disconnected,
\* the registry is empty and a join has just failed with 'Server not found.'.
C8_JoinAfterRemoval ==
    /\ DOMAIN GAMES = {}
    /\ used.creates = 1
    /\ used.joins >= 1
    /\ \E s \in Sockets : conn[s] = "closed"
    /\ out = <<ToSender("joinFailed", "Server not found.")>>

\* C9: CLAIM_TERRITORY by the holder.  On an owned territory the room is
\* unchanged.  On an unowned one, with money >= 500: money falls by 500, the
\* territory gets the claimant as owner and 1 unit, production rises by the
\* territory's productionValue, and nothing else in the room changes.
C9_ClaimTerritory ==
    \A s \in Sockets, t \in 1..MaxTerritories :
        (InRoom(s) /\ GameOf(s).gameState.currentTurnPlayerId = s)
        => LET g == GameOf(s)
               r == processAction(g, s, Act("CLAIM_TERRITORY", KeptTerritories[t], NULL), 0).game
               terr == g.gameState.territories[t]
               res == g.players[s].resources
           IN  /\ terr.ownerId # NULL => r = g
               /\ (terr.ownerId = NULL /\ res.money >= 500)
                  => /\ r.players[s].resources =
                          [money |-> res.money - 500,
                           military |-> res.military,
                           production |-> res.production + terr.productionValue,
                           research |-> res.research]
                     /\ r.gameState.territories[t] =
                          [ownerId |-> s, militaryUnits |-> 1,
                           productionValue |-> terr.productionValue]
                     /\ \A u \in 1..Len(g.gameState.territories) :
                          u # t => r.gameState.territories[u] = g.gameState.territories[u]
                     /\ Len(r.gameState.territories) = Len(g.gameState.territories)
                     /\ \A p \in DOMAIN g.players : p # s => r.players[p] = g.players[p]
                     /\ DOMAIN r.players = DOMAIN g.players
                     /\ r.players[s].name = g.players[s].name
                     /\ r.playerIDs = g.playerIDs
                     /\ r.gameState.currentTurn = g.gameState.currentTurn
                     /\ r.gameState.currentTurnPlayerId = s
                     /\ r.gameState.gamePhase = g.gameState.gamePhase

\* C9 witness: a player who joined with the room's starting money has just
\* claimed a territory.
C9_Claimed ==
    \E id \in DOMAIN GAMES :
        \E s \in Members(id), t \in 1..Len(GAMES[id].gameState.territories) :
            /\ GAMES[id].gameState.territories[t].ownerId = s
            /\ GAMES[id].gameState.territories[t].militaryUnits = 1
            /\ GAMES[id].players[s].resources.money = GAMES[id].settings.startingMoney - 500
            /\ GAMES[id].players[s].resources.production =
                  GAMES[id].gameState.territories[t].productionValue
            /\ out = <<ToRoom(id, "stateUpdate", "full")>>

\* The holder's action fails validation: the cases the claim lists.
FailsValidation(g, s, action) ==
    LET terrs == g.gameState.territories
        money == g.players[s].resources.money
    IN  CASE action.type = "CLAIM_TERRITORY" ->
                \/ \A i \in 1..Len(terrs) : KeptTerritories[i] # action.territoryId
                \/ \E i \in 1..Len(terrs) :
                      KeptTerritories[i] = action.territoryId /\ terrs[i].ownerId # NULL
                \/ money < 500
          [] action.type = "EXPAND_LAND" ->
                \/ \A i \in 1..Len(terrs) : terrs[i].ownerId # NULL
                \/ money < 500
          [] action.type = "BUILD_UNIT" ->
                \/ \A i \in 1..Len(terrs) : terrs[i].ownerId # s
                \/ money < 100
          [] action.type = "PROPOSE_TRUCE" -> action.targetId \notin DOMAIN g.players
          [] OTHER -> FALSE

\* C10 (as claimed): an action of the holder that fails validation leaves the
\* room unchanged and is answered to the acting connection only; nothing is
\* emitted to the room.
C10_FailedActionChangesNothing ==
    [][\A s \in Sockets, action \in ActionInputs :
         \A rnd \in Draws(action) :
            (/\ InRoom(s)
             /\ GameOf(s).gameState.currentTurnPlayerId = s
             /\ FailsValidation(GameOf(s), s, action)
             /\ PlayerAction(s, action, rnd))
            => GAMES' = GAMES /\ Len(out') = 1 /\ OnlySender(out')]_vars

\* C10, for every input but a truce proposed to a key the players object
\* inherits: the room is unchanged and one globalChat notice goes to the sender.
C10_ExceptInheritedTarget ==
    \A s \in Sockets, action \in ActionInputs :
        \A rnd \in Draws(action) :
            (/\ InRoom(s)
             /\ GameOf(s).gameState.currentTurnPlayerId = s
             /\ FailsValidation(GameOf(s), s, action)
             /\ ~(action.type = "PROPOSE_TRUCE" /\ action.targetId \in InheritedKeys))
            => LET r == processAction(GameOf(s), s, action, rnd)
               IN  /\ r.game = GameOf(s)
                   /\ Len(r.out) = 1
                   /\ r.out[1].ev = "globalChat"
                   /\ OnlySender(r.out)

\* The types the switch of processAction has a case for.
KnownTypes ==
    {"CLAIM_TERRITORY", "ATTACK_TERRITORY", "EXPAND_LAND", "BUILD_UNIT",
     "PROPOSE_TRUCE", "END_TURN"} \cup Placeholders

\* C11 (as claimed): an action of the holder whose type the switch does not
\* know changes nothing in the registry and emits nothing to the room.
C11_UnknownActionNotBroadcast ==
    [][\A s \in Sockets, action \in ActionInputs :
         (/\ InRoom(s)
          /\ GameOf(s).gameState.currentTurnPlayerId = s
          /\ action.type \notin KnownTypes
          /\ PlayerAction(s, action, 0))
         => GAMES' = GAMES /\ OnlySender(out')]_vars

\* C11, the part that holds: the holder's action of an unknown type returns the
\* room as it was.
C11_UnknownActionChangesNothing ==
    \A s \in Sockets, action \in ActionInputs :
        (InRoom(s) /\ GameOf(s).gameState.currentTurnPlayerId = s
         /\ action.type \notin KnownTypes)
        => processAction(GameOf(s), s, action, 0).game = GameOf(s)

\* What a turn end makes of the resources of player p of room g.
AfterTurnEnd(g, p) ==
    LET res == g.players[p].resources
        k == Cardinality({i \in 1..Len(g.gameState.territories) :
                            g.gameState.territories[i].ownerId = p})
    IN  [money |-> res.money + (res.production + res.research) - 10 * k,
         military |-> res.military,
         production |-> res.production,
         research |-> res.research]

\* A turn end took room g to room r: every player of g has the resources a
\* turn end gives, nothing else of a player changed, and no territory changed.
TurnEndApplied(g, r) ==
    /\ r.playerIDs = g.playerIDs
    /\ DOMAIN r.players = DOMAIN g.players
    /\ \A p \in DOMAIN g.players :
          r.players[p] = [g.players[p] EXCEPT !.resources = AfterTurnEnd(g, p)]
    /\ r.gameState.territories = g.gameState.territories

ClaimedJoinFailure(serverID, password) ==
    IF serverID \notin DOMAIN GAMES THEN "Server not found."
    ELSE IF GAMES[serverID].password # NULL /\ GAMES[serverID].password # password
         THEN "Incorrect password."
    ELSE IF Cardinality(Members(serverID)) >= GAMES[serverID].settings.maxPlayers
         THEN "Server is full."
    ELSE NULL

\* A joinServer for one of the ids, where the claim has it fail, is answered
\* with its joinFailed text and leaves the registry as it was.
FailedJoinsAnswered(ids) ==
    \A s \in Sockets, serverID \in ids, password \in Passwords :
        \A hostName \in HostNames(s) :
            (JoinServer(s, serverID, password, hostName)
             /\ ClaimedJoinFailure(serverID, password) # NULL)
            => /\ out' = <<ToSender("joinFailed", ClaimedJoinFailure(serverID, password))>>
               /\ GAMES' = GAMES

\* No room has more players than its maxPlayers.
MaxPlayersRespected ==
    \A id \in DOMAIN GAMES : Cardinality(Members(id)) <= GAMES[id].settings.maxPlayers

\* C13 (as claimed): a join of an unregistered id fails with 'Server not
\* found.', of a room whose password does not match with 'Incorrect password.',
\* of a room with maxPlayers players with 'Server is full.'; a failed join
\* changes nothing; no room ever has more players than its maxPlayers.
C13_JoinFailures == [][FailedJoinsAnswered(JoinIDs)]_vars /\ []MaxPlayersRespected

\* C13, for the ids generateGameID can return.
C13_GeneratedIds == [][FailedJoinsAnswered(RoomIDs)]_vars /\ []MaxPlayersRespected

\* The step is a createServer that stored a room under id.
Creates(id) == out' = <<ToSender("serverCreated", id)>>

\* C14: the first successful join of a room makes the joiner the holder and
\* takes the phase from LOBBY to ACTIVE; a later successful join leaves holder,
\* phase and currentTurn alone; a room is in LOBBY exactly when nobody has
\* joined it since it was created; and a room's phase never goes from ACTIVE
\* back to LOBBY.
C14_FirstJoinStartsGame ==
    /\ [](\A id \in DOMAIN GAMES :
             /\ GAMES[id].gameState.gamePhase \in {"LOBBY", "ACTIVE"}
             /\ GAMES[id].gameState.gamePhase = "LOBBY" <=> id \notin joined)
    /\ [][/\ \A s \in Sockets, id \in RoomIDs, password \in Passwords :
               \A hostName \in HostNames(s) :
                  (/\ Len(out') = 3
                   /\ out'[1] = ToRoom(id, "globalChat", "has joined the game.")
                   /\ id \in DOMAIN GAMES
                   /\ JoinServer(s, id, password, hostName))
                  => IF id \notin joined
                     THEN /\ GAMES[id].gameState.gamePhase = "LOBBY"
                          /\ GAMES'[id].gameState.gamePhase = "ACTIVE"
                          /\ GAMES'[id].gameState.currentTurnPlayerId = s
                     ELSE /\ GAMES'[id].gameState.gamePhase = GAMES[id].gameState.gamePhase
                          /\ GAMES'[id].gameState.currentTurnPlayerId = Holder(id)
                          /\ GAMES'[id].gameState.currentTurn = GAMES[id].gameState.currentTurn
          /\ \A id \in (DOMAIN GAMES) \cap (DOMAIN GAMES') :
               (GAMES[id].gameState.gamePhase = "ACTIVE" /\ ~Creates(id))
               => GAMES'[id].gameState.gamePhase = "ACTIVE"]_vars

\* C14 witness: a second player has just joined a room whose first player holds
\* the turn; the room is ACTIVE.
C14_SecondJoined ==
    \E id \in DOMAIN GAMES :
        /\ Len(GAMES[id].playerIDs) = 2
        /\ Holder(id) = GAMES[id].playerIDs[1]
        /\ GAMES[id].gameState.gamePhase = "ACTIVE"
        /\ currentGameID[GAMES[id].playerIDs[2]] = id
        /\ Len(out) = 3 /\ out[1] = ToRoom(id, "globalChat", "has joined the game.")

\* The step is a successful joinServer of s for the registered room id.
Joins(s, id) ==
    /\ id \in DOMAIN GAMES
    /\ \E password \in Passwords, hostName \in HostNames(s) :
          JoinServer(s, id, password, hostName) /\ JoinFailure(id, password) = NULL

\* What the claim says a successful join of s does to room id: one player
\* more, the joiner with the room's starting resources, every earlier entry
\* as it was.
OnePlayerAdded(s, id) ==
    /\ id \in DOMAIN GAMES'
    /\ Cardinality(DOMAIN GAMES'[id].players) = Cardinality(Members(id)) + 1
    /\ s \in DOMAIN GAMES'[id].players
    /\ GAMES'[id].players[s].resources =
          [money |-> GAMES[id].settings.startingMoney,
           military |-> GAMES[id].settings.startingMilitary,
           production |-> 0, research |-> 0]
    /\ \A p \in Members(id) :
          p \in DOMAIN GAMES'[id].players /\ GAMES'[id].players[p] = GAMES[id].players[p]

\* C15 (as claimed): every successful joinServer adds one player with the
\* room's starting resources and leaves the entries of the players already in
\* the room as they were, also when the joiner is already a player of the room.
C15_JoinAddsOnePlayer ==
    [][\A s \in Sockets, id \in RoomIDs : Joins(s, id) => OnePlayerAdded(s, id)]_vars

\* C15, for a joiner who is not yet a player of the room.
C15_NewcomerAddsOnePlayer ==
    [][\A s \in Sockets, id \in RoomIDs :
         (Joins(s, id) /\ s \notin Members(id)) => OnePlayerAdded(s, id)]_vars

\* A successful join of a connection that is already a player of the room
\* keeps the number of players and puts a fresh entry in place of the old one.
C15_RejoinReplacesEntry ==
    [][\A s \in Sockets, id \in RoomIDs :
         (Joins(s, id) /\ s \in Members(id))
         => /\ GAMES'[id].playerIDs = GAMES[id].playerIDs
            /\ GAMES'[id].players[s].resources.money = GAMES[id].settings.startingMoney
            /\ GAMES'[id].players[s].resources.production = 0]_vars

\* C16 (as claimed): the id a createServer stores its room under is not yet
\* registered, and every room registered before is afterwards as it was.
C16_CreateKeepsRooms ==
    [][\A id \in RoomIDs :
         Creates(id)
         => /\ id \notin DOMAIN GAMES
            /\ \A other \in DOMAIN GAMES :
                  other \in DOMAIN GAMES' /\ GAMES'[other] = GAMES[other]]_vars

\* C16, for a createServer whose generated id is not in use: the rooms
\* registered before are as they were.
C16_FreshIdKeepsRooms ==
    [][\A id \in RoomIDs :
         (Creates(id) /\ id \notin DOMAIN GAMES)
         => \A other \in DOMAIN GAMES :
               other \in DOMAIN GAMES' /\ GAMES'[other] = GAMES[other]]_vars

\* The step leaves the room id as it was: registered or not, and its state.
RoomKept(id) ==
    /\ id \in DOMAIN GAMES <=> id \in DOMAIN GAMES'
    /\ id \in DOMAIN GAMES => GAMES'[id] = GAMES[id]

\* C17: a joinServer, playerAction, chatMessage or disconnect that changes the
\* registry leaves every room but the one the event is for as it was, and that
\* one room is afterwards what the one handler makes of it: the room a join
\* names, the room currentGameID names for a playerAction or a disconnect; a
\* chatMessage changes no room.
C17_RoomsIndependent ==
    [][GAMES' # GAMES
       => /\ \A s \in Sockets, id \in JoinIDs, password \in Passwords :
               \A hostName \in HostNames(s) :
                   JoinServer(s, id, password, hostName)
                   => /\ \A other \in RoomIDs \ {id} : RoomKept(other)
                      /\ GAMES'[id] = JoinedGame(GAMES[id], s, hostName)
          /\ \A s \in Sockets, action \in ActionInputs :
               \A rnd \in Draws(action) :
                   PlayerAction(s, action, rnd)
                   => /\ \A other \in RoomIDs \ {currentGameID[s]} : RoomKept(other)
                      /\ GAMES'[currentGameID[s]] =
                            processAction(GameOf(s), s, action, rnd).game
          /\ \A s \in Sockets : ~ChatMessage(s)
          /\ \A s \in Sockets :
               Disconnect(s)
               => \A other \in RoomIDs \ {currentGameID[s]} : RoomKept(other)]_vars

\* C17 witness: two rooms with players; the turn has just ended in one, whose
\* counter stands at 2, while the other's still stands at 1.
C17_TurnEndedInOneRoom ==
    \E a \in DOMAIN GAMES, b \in DOMAIN GAMES :
        /\ a # b
        /\ Len(GAMES[a].playerIDs) >= 1 /\ Len(GAMES[b].playerIDs) >= 1
        /\ GAMES[a].gameState.currentTurn = 2
        /\ GAMES[b].gameState.currentTurn = 1
        /\ out = <<ToRoom(a, "stateUpdate", "full")>>

\* The step is the disconnect of s, processed by server.js for the room it is
\* mapped to.
SvLeaves(s, id) ==
    /\ conn[s] = "open" /\ conn'[s] = "closed"
    /\ playerToServer[s] = id /\ id \in DOMAIN games

\* Every registered room's hostID is a key of its players.
HostIsPlayer ==
    \A id \in DOMAIN games : games[id].serverData.hostID \in DOMAIN games[id].players

\* C18 (as claimed): in server.js every registered room's hostID is a key of
\* the room's players; and when the host disconnects and players remain, the
\* room stays and its hostID and hostName are those of the first remaining
\* player in key order.
C18_HostIsPlayer ==
    /\ []HostIsPlayer
    /\ [][\A s \in Sockets, id \in RoomIDs :
            (/\ SvLeaves(s, id)
             /\ games[id].serverData.hostID = s
             /\ (DOMAIN games[id].players) \ {s} # {})
            => LET rest == SelectSeq(games[id].playerIDs, LAMBDA k : k # s)
               IN  /\ id \in DOMAIN games'
                   /\ games'[id].serverData.hostID = rest[1]
                   /\ games'[id].serverData.hostName = games[id].players[rest[1]].name]_vars

\* Host migration as the handler does it: when the host leaves and the room
\* stays registered with players left, the first remaining key is the host.
C18_HostMigrates ==
    [][\A s \in Sockets, id \in RoomIDs :
         (/\ SvLeaves(s, id)
          /\ games[id].serverData.hostID = s
          /\ (DOMAIN games[id].players) \ {s} # {}
          /\ id \in DOMAIN games')
         => LET rest == SelectSeq(games[id].playerIDs, LAMBDA k : k # s)
            IN  /\ games'[id].serverData.hostID = rest[1]
                /\ games'[id].serverData.hostName = games[id].players[rest[1]].name]_vars

\* C19 (as claimed): every resource of every player of every registered room
\* is at least 0.
C19_ResourcesNonNegative ==
    \A id \in DOMAIN GAMES :
        \A p \in Members(id) :
            /\ GAMES[id].players[p].resources.money >= 0
            /\ GAMES[id].players[p].resources.military >= 0
            /\ GAMES[id].players[p].resources.production >= 0
            /\ GAMES[id].players[p].resources.research >= 0

\* C19, one step of it: in a room where no money is negative and every
\* player's production is at least 100 for each territory the player owns (what
\* the claims credited), no action of the holder makes any money negative.
C19_SolventWhileProductionCounts ==
    \A s \in Sockets, action \in ActionInputs :
        \A rnd \in Draws(action) :
            (/\ InRoom(s)
             /\ GameOf(s).gameState.currentTurnPlayerId = s
             /\ \A p \in DOMAIN GameOf(s).players :
                   /\ GameOf(s).players[p].resources.money >= 0
                   /\ GameOf(s).players[p].resources.production
                         >= 100 * Len(OwnedBy(GameOf(s).gameState, p)))
            => \A p \in DOMAIN GameOf(s).players :
                  processAction(GameOf(s), s, action, rnd).game.players[p].resources.money >= 0

\* The step runs the END_TURN transition of room id for its holder: the
\* holder's own END_TURN, or the one the disconnect handler makes for a holder
\* who leaves.
EndsTurn(id) ==
    \E s \in Sockets :
        /\ currentGameID[s] = id /\ Holder(id) = s /\ s \in Members(id)
        /\ \/ PlayerAction(s, Act("END_TURN", NULL, NULL), 0)
           \/ Disconnect(s)

\* C20: a room's currentTurn is 1 when createServer stores the room and never
\* less afterwards; a step leaves it alone or adds exactly 1, and adds 1 only
\* when the step runs END_TURN for the holder, the player after the holder in
\* key order is the first key, and the phase is ACTIVE.
C20_TurnCounter ==
    /\ [](\A id \in DOMAIN GAMES : GAMES[id].gameState.currentTurn >= 1)
    /\ [][\A id \in RoomIDs :
            /\ (Creates(id) /\ id \in DOMAIN GAMES') => GAMES'[id].gameState.currentTurn = 1
            /\ (id \in DOMAIN GAMES /\ id \in DOMAIN GAMES' /\ ~Creates(id))
               => \/ GAMES'[id].gameState.currentTurn = GAMES[id].gameState.currentTurn
                  \/ /\ GAMES'[id].gameState.currentTurn = GAMES[id].gameState.currentTurn + 1
                     /\ EndsTurn(id)
                     /\ After(GAMES[id].playerIDs, Holder(id)) = GAMES[id].playerIDs[1]
                     /\ GAMES[id].gameState.gamePhase = "ACTIVE"]_vars

\* C20 witness: in a room of two both players have ended their turn: the first
\* holds the turn again and the counter stands at 2.
C20_SecondTurn ==
    \E id \in DOMAIN GAMES :
        /\ Len(GAMES[id].playerIDs) = 2
        /\ Holder(id) = GAMES[id].playerIDs[1]
        /\ GAMES[id].gameState.currentTurn = 2
        /\ out = <<ToRoom(id, "stateUpdate", "full")>>

\* Room r is room g after player s took the unclaimed territory t as a
\* CLAIM_TERRITORY does, and differs from g in nothing else.
TookTerritory(g, r, s, t) ==
    LET terr == g.gameState.territories[t]
        res == g.players[s].resources
    IN  /\ terr.ownerId = NULL
        /\ r.players[s].resources =
              [money |-> res.money - 500,
               military |-> res.military,
               production |-> res.production + terr.productionValue,
               research |-> res.research]
        /\ r.gameState.territories[t] =
              [ownerId |-> s, militaryUnits |-> 1, productionValue |-> terr.productionValue]
        /\ Len(r.gameState.territories) = Len(g.gameState.territories)
        /\ \A u \in 1..Len(g.gameState.territories) :
              u # t => r.gameState.territories[u] = g.gameState.territories[u]
        /\ DOMAIN r.players = DOMAIN g.players
        /\ \A p \in DOMAIN g.players : p # s => r.players[p] = g.players[p]
        /\ r.players[s].name = g.players[s].name
        /\ r.playerIDs = g.playerIDs
        /\ r.gameState.currentTurn = g.gameState.currentTurn
        /\ r.gameState.currentTurnPlayerId = g.gameState.currentTurnPlayerId
        /\ r.gameState.gamePhase = g.gameState.gamePhase
        /\ r.settings = g.settings /\ r.password = g.password /\ r.id = g.id

\* C21: EXPAND_LAND by the holder, whatever the draw.  With a territory
\* unclaimed and money >= 500, exactly one territory that was unclaimed is
\* taken as by CLAIM_TERRITORY and nothing else changes.  With no territory
\* unclaimed the room is unchanged and only the sender hears of it, whatever
\* the player's money.
C21_ExpandLand ==
    \A s \in Sockets, rnd \in 0..(MaxTerritories - 1) :
        (InRoom(s) /\ GameOf(s).gameState.currentTurnPlayerId = s)
        => LET g == GameOf(s)
               r == processAction(g, s, Act("EXPAND_LAND", NULL, NULL), rnd)
               terrs == g.gameState.territories
               free == {t \in 1..Len(terrs) : terrs[t].ownerId = NULL}
           IN  /\ (free # {} /\ g.players[s].resources.money >= 500)
                  => /\ \E t \in free : TookTerritory(g, r.game, s, t)
                     /\ r.out = <<ToRoom(g.id, "stateUpdate", "full")>>
               /\ free = {}
                  => /\ r.game = g
                     /\ r.out # <<>> /\ OnlySender(r.out)

\* C21 witness: every territory of the room is owned, the holder can pay for
\* another, and the holder's EXPAND_LAND has just been refused for want of
\* unclaimed land.
C21_NoLandLeft ==
    \E id \in DOMAIN GAMES :
        /\ Holder(id) \in Members(id)
        /\ \A t \in 1..Len(GAMES[id].gameState.territories) :
              GAMES[id].gameState.territories[t].ownerId # NULL
        /\ GAMES[id].players[Holder(id)].resources.money >= 500
        /\ out = <<ToSender("globalChat", "ERROR: No unclaimed land left to expand into!")>>

\* C22 (as claimed): every territory of every registered room is unowned or
\* owned by a player who is in that room's players mapping.
C22_OwnersArePlayers ==
    \A id \in DOMAIN GAMES :
        \A t \in 1..Len(GAMES[id].gameState.territories) :
            \/ GAMES[id].gameState.territories[t].ownerId = NULL
            \/ GAMES[id].gameState.territories[t].ownerId \in Members(id)

\* C22, what does hold: a step that changes a territory's owner gives it to a
\* player who is in the room's players mapping after the step.
C22_TakenByPlayers ==
    [][GAMES' # GAMES =>
        \A id \in DOMAIN GAMES \cap DOMAIN GAMES' :
            \A t \in 1..Len(GAMES[id].gameState.territories) :
                (/\ ~Creates(id)
                 /\ GAMES'[id].gameState.territories[t].ownerId
                       # GAMES[id].gameState.territories[t].ownerId)
                => GAMES'[id].gameState.territories[t].ownerId \in DOMAIN GAMES'[id].players]_vars

\* The sum of productionValue over the territories of terrs owned by pId.
RECURSIVE OwnedProduction(_, _)
OwnedProduction(terrs, pId) ==
    IF terrs = <<>>
    THEN 0
    ELSE (IF Head(terrs).ownerId = pId THEN Head(terrs).productionValue ELSE 0)
         + OwnedProduction(Tail(terrs), pId)

\* In room g every player's production is the sum over the player's territories.
ProductionIsSum(g) ==
    \A p \in DOMAIN g.players :
        g.players[p].resources.production = OwnedProduction(g.gameState.territories, p)

\* C23 (as claimed): in every registered room each player's production equals
\* the sum of productionValue over the territories the player owns.
C23_ProductionIsSum == \A id \in DOMAIN GAMES : ProductionIsSum(GAMES[id])

\* C23, what does hold: a room is created with the equality, and every step
\* keeps it except a successful joinServer of a connection that is already a
\* player of the room.
C23_KeptExceptByRejoin ==
    [][GAMES' # GAMES =>
        \A id \in DOMAIN GAMES' :
            \/ Creates(id) /\ ProductionIsSum(GAMES'[id])
            \/ /\ ~Creates(id) /\ id \in DOMAIN GAMES
               /\ \/ ~ProductionIsSum(GAMES[id])
                  \/ ProductionIsSum(GAMES'[id])
                  \/ \E s \in Members(id) : Joins(s, id)]_vars

\* Room g counts its players right: currentPlayers is the number of keys of
\* players.
CountIsKeys(g) == g.serverData.currentPlayers = Cardinality(DOMAIN g.players)

\* The step is a successful joinServer of s for the registered room id.
SvJoins(s, id) ==
    /\ id \in DOMAIN games
    /\ \E password \in Passwords :
          SvJoinServer(s, id, password) /\ SvJoinFailure(id, password) = NULL

\* C24 (as claimed): in server.js every registered room's currentPlayers is
\* the number of keys of its players, and no registered room has an empty
\* players mapping.
C24_CountIsKeys ==
    \A id \in DOMAIN games :
        /\ CountIsKeys(games[id])
        /\ DOMAIN games[id].players # {}

\* C24, what does hold: createServer stores a room that counts right, and a
\* step keeps a room counting right unless it is a joinServer of a connection
\* that is already a key of players, or the disconnect of a connection that
\* playerToServer maps to the room and that is not a key of players.  A room
\* that counts right is deleted by the disconnect of its only player and by
\* no other disconnect.
C24_KeptExceptByNonMembers ==
    [][games' # games =>
        \A id \in RoomIDs :
            /\ (Creates(id) /\ id \in DOMAIN games') => CountIsKeys(games'[id])
            /\ (id \in DOMAIN games /\ ~Creates(id) /\ CountIsKeys(games[id]))
               => /\ id \in DOMAIN games'
                     => \/ CountIsKeys(games'[id])
                        \/ \E s \in DOMAIN games[id].players : SvJoins(s, id)
                        \/ \E s \in Sockets \ DOMAIN games[id].players : SvLeaves(s, id)
                  /\ \A s \in DOMAIN games[id].players :
                        SvLeaves(s, id)
                        => (id \notin DOMAIN games' <=> DOMAIN games[id].players = {s})]_vars

\* The players of room g whose isTurn flag is true.
TurnFlags(g) == {p \in DOMAIN g.players : g.players[p].isTurn}

\* C25 (as claimed): in server.js every registered room with at least one
\* player has exactly one player whose isTurn flag is true.
C25_OneTurnFlag ==
    \A id \in DOMAIN games :
        DOMAIN games[id].players # {} => Cardinality(TurnFlags(games[id])) = 1

\* C25, what does hold: no room ever has two players with the flag, and a
\* room that has one keeps one through every step except the disconnect and
\* the repeated joinServer of the player who has it.
C25_FlagLostOnlyByItsHolder ==
    /\ [](\A id \in DOMAIN games : Cardinality(TurnFlags(games[id])) <= 1)
    /\ [][games' # games =>
            \A id \in DOMAIN games \cap DOMAIN games' :
                (~Creates(id) /\ Cardinality(TurnFlags(games[id])) = 1)
                => \/ Cardinality(TurnFlags(games'[id])) = 1
                   \/ \E s \in TurnFlags(games[id]) : SvJoins(s, id) \/ SvLeaves(s, id)]_vars

====
